---- MODULE Spec2Model ----
(***************************************************************************)
(* Model of the Renode External Control client (renodeAPI):                *)
(* ExternalControlClient::connect / disconnect / performHandshake /        *)
(* getMachine, the response decoder recv_response and the AMachine cache.  *)
(* Bytes are naturals 0..255, strings are sequences of bytes.              *)
(***************************************************************************)
EXTENDS Integers, Sequences, FiniteSets, TLC

\* ------------------------------------------------------------- bounds
NumThreads == 2
MaxClients == 2
MaxSockets == 2
MaxMachines == 2
MaxRefs == 2
MaxCandidates == 2

\* ------------------------------------------------- program constants
COMMAND_FAILED == 0
FATAL_ERROR == 1
INVALID_COMMAND == 2
SUCCESS_WITH_DATA == 3
SUCCESS_WITHOUT_DATA == 4
OK_HANDSHAKE == 5
ASYNC_EVENT == 6

RUN_FOR == 1
GET_MACHINE == 3

\* uint8_t received_command = 0xFF: "no echoed command was read"
NO_ECHO == 255

\* Error codes getMachine fills in
ERR_NONE == 0
ERR_NOT_CONNECTED == 1
ERR_SEND_COMMAND == 2
ERR_REPLY_SIZE == 3
ERR_NOT_FOUND == 4

Threads == 1..NumThreads
Clients == 1..MaxClients
Fds == 1..MaxSockets
ObjIds == 1..MaxMachines
Null == 0

\* machine names "m1", "m2" as byte strings
Names == {<<109, 49>>, <<109, 50>>}

\* ------------------------------------------------------------ helpers
Min(S) == CHOOSE x \in S : \A y \in S : x <= y

\* write_u32_le / the header's 4 length bytes, for lengths below 2^31
U32LE(v) == <<v % 256, (v \div 256) % 256, (v \div 65536) % 256, (v \div 16777216) % 256>>

\* memcpy of 4 little-endian bytes into an int32_t (two's complement)
Int32LE(b) ==
  LET hi == IF b[4] >= 128 THEN b[4] - 256 ELSE b[4]
  IN  b[1] + 256 * b[2] + 65536 * b[3] + 16777216 * hi

\* ------------------------------------------------------- recv_response
Thrown(what, n) == [threw |-> TRUE, what |-> what, payload |-> <<>>, consumed |-> n]
Returned(what, p, n) == [threw |-> FALSE, what |-> what, payload |-> p, consumed |-> n]

\* "Validate echoed command if requested", then return payload
ValidateEcho(received_command, expected_command, payload, n) ==
  IF received_command # NO_ECHO /\ received_command # expected_command
  THEN Thrown("mismatch", n)
  ELSE Returned("payload", payload, n)

HasEcho(return_code) ==
  return_code \in {COMMAND_FAILED, INVALID_COMMAND, SUCCESS_WITH_DATA, SUCCESS_WITHOUT_DATA}

\* The decoder applied to the bytes s the peer delivers before it closes or
\* errors: read_all fails when fewer bytes than asked for remain.
RecvResponse(s, expected_command) ==
  IF Len(s) < 1 THEN Thrown("return_code", 0)
  ELSE
    LET return_code == s[1]
        pos == IF HasEcho(return_code) THEN 2 ELSE 1
    IN
    IF HasEcho(return_code) /\ Len(s) < 2 THEN Thrown("echo", Len(s))
    ELSE
      LET received_command == IF HasEcho(return_code) THEN s[2] ELSE NO_ECHO
      IN
      IF return_code \in {COMMAND_FAILED, FATAL_ERROR, SUCCESS_WITH_DATA}
      THEN
        IF Len(s) < pos + 4 THEN Returned("truncated_size", <<>>, Len(s))
        ELSE
          LET sz == SubSeq(s, pos + 1, pos + 4)
              \* a length of 2^31 or more exceeds every stream of the model
              huge == sz[4] >= 128
              data_size == IF huge THEN 0 ELSE Int32LE(sz)
          IN
          IF huge \/ Len(s) < pos + 4 + data_size
          THEN Returned("truncated_payload", <<>>, Len(s))
          ELSE ValidateEcho(received_command, expected_command,
                            SubSeq(s, pos + 5, pos + 4 + data_size),
                            pos + 4 + data_size)
      ELSE IF return_code \in {INVALID_COMMAND, SUCCESS_WITHOUT_DATA}
      THEN ValidateEcho(received_command, expected_command, <<>>, pos)
      ELSE IF return_code = ASYNC_EVENT
      THEN Thrown("async_event", pos)
      ELSE \* default: logs "unexpected return code" and falls through
           ValidateEcho(received_command, expected_command, <<>>, pos)

\* --------------------------------------------------------- peer inputs
Payloads ==
  { <<>>, <<0, 0, 0, 0>>, <<1, 0, 0, 0>>, <<255, 255, 255, 255>>,
    <<0, 0, 0, 128>>, <<1, 0, 0>>, <<1, 0, 0, 0, 0>> }

Echoes == {GET_MACHINE, RUN_FOR, NO_ECHO}

\* A response frame in the layout recv_response reads for its return code
Frame(rc, e, p) ==
  IF rc \in {COMMAND_FAILED, SUCCESS_WITH_DATA} THEN <<rc, e>> \o U32LE(Len(p)) \o p
  ELSE IF rc = FATAL_ERROR THEN <<rc>> \o U32LE(Len(p)) \o p
  ELSE IF rc \in {INVALID_COMMAND, SUCCESS_WITHOUT_DATA} THEN <<rc, e>>
  ELSE <<rc>>

Frames ==
  { Frame(SUCCESS_WITH_DATA, e, p) : e \in Echoes, p \in Payloads }
  \cup { Frame(COMMAND_FAILED, e, p) : e \in {GET_MACHINE, RUN_FOR}, p \in Payloads }
  \cup { Frame(FATAL_ERROR, NO_ECHO, p) : p \in Payloads }
  \cup { Frame(rc, e, <<>>) : rc \in {INVALID_COMMAND, SUCCESS_WITHOUT_DATA}, e \in Echoes }
  \cup { <<OK_HANDSHAKE>>, <<ASYNC_EVENT>>, <<7>> }

Prefixes(f) == { SubSeq(f, 1, k) : k \in 0..Len(f) }

\* A frame, or a frame cut short by the peer closing the connection
Responses ==
  Frames \cup Prefixes(Frame(SUCCESS_WITH_DATA, GET_MACHINE, <<1, 0, 0, 0>>))
         \cup Prefixes(Frame(FATAL_ERROR, NO_ECHO, <<1, 0, 0, 0>>))

HandshakeBytes == {OK_HANDSHAKE, COMMAND_FAILED, SUCCESS_WITHOUT_DATA, 255}

\* -------------------------------------------------------------- state
VARIABLES
  sock_fd_,   \* static int sock_fd_: one slot shared by every instance
  open,       \* socket descriptors currently open in the process
  cstate,     \* per client instance: "unborn", "alive", "dead"
  connected,  \* Impl::connected
  mtx,        \* Impl::mtx: 0 when free, else the thread holding it
  machines,   \* Impl::machines: name -> weak_ptr (object id, or Null)
  heap,       \* AMachine objects ever constructed
  refs,       \* shared_ptr use count of each AMachine held by callers
  pc, cl, nm, \* per thread: position, client and name of the call in progress
  hsOk,       \* history: performHandshake returned true on the client
  disc,       \* history: disconnect() has returned on the client
  last,       \* history: the call that completed last and its outcome, until the next call starts
  tx,         \* bytes the client has written that the peer has not read yet
  rx,         \* what the peer has written and the client has not read yet: a sequence of fragments
  rt          \* the round trip on the byte streams: its position, request, response and outcome

vars == <<sock_fd_, open, cstate, connected, mtx, machines, heap, refs,
          pc, cl, nm, hsOk, disc, last, tx, rx, rt>>

\* the byte streams of the codec
codec == <<tx, rx, rt>>

NoMachine == [used |-> FALSE, name |-> <<>>, renodeClient |-> Null, key |-> <<>>, desc |-> 0]

NoOutcome == [threw |-> FALSE, what |-> "", payload |-> <<>>, consumed |-> 0]
NoTrip == [phase |-> "idle", n |-> 0, id |-> 0, payload |-> <<>>, parsed |-> <<>>,
           frame |-> <<>>, writes |-> 0, out |-> NoOutcome, flat |-> NoOutcome]

NoCall == [op |-> "none", c |-> Null, name |-> <<>>, resp |-> <<>>, threw |-> FALSE,
           what |-> "", payload |-> <<>>, err |-> ERR_NONE, obj |-> Null,
           liveBefore |-> {}, usedBefore |-> {}, ok |-> FALSE,
           cands |-> <<>>, idx |-> 0, exc |-> "", sent |-> <<>>]

Init ==
  /\ sock_fd_ = 0
  /\ open = {}
  /\ cstate = [c \in Clients |-> "unborn"]
  /\ connected = [c \in Clients |-> FALSE]
  /\ mtx = [c \in Clients |-> 0]
  /\ machines = [c \in Clients |-> [n \in Names |-> Null]]
  /\ heap = [o \in ObjIds |-> NoMachine]
  /\ refs = [o \in ObjIds |-> 0]
  /\ pc = [t \in Threads |-> "idle"]
  /\ cl = [t \in Threads |-> Null]
  /\ nm = [t \in Threads |-> <<>>]
  /\ hsOk = [c \in Clients |-> FALSE]
  /\ disc = [c \in Clients |-> FALSE]
  /\ last = NoCall
  /\ tx = <<>>
  /\ rx = <<>>
  /\ rt = NoTrip

\* ------------------------------------------------------------ connect
\* class RenodeException : public std::runtime_error. A handler for `base`
\* catches an exception of type `thrown` when thrown is base or derives from it.
IsA(thrown, base) ==
  \/ thrown = base
  \/ thrown = "RenodeException" /\ base \in {"std::runtime_error", "std::exception"}
  \/ thrown = "std::runtime_error" /\ base = "std::exception"

Outcomes == {"nosock", "refused", "ok"}
CandidateLists == UNION { [1..k -> Outcomes] : k \in 1..MaxCandidates }

\* A loop that leaves the socket of a refused candidate open
RECURSIVE ConnectLoop_NoClose(_, _, _)
ConnectLoop_NoClose(cands, i, op) ==
  IF i > Len(cands) THEN [ok |-> FALSE, sock |-> -1, open |-> op, idx |-> 0]
  ELSE
    LET free == Fds \ op
        fd == IF cands[i] = "nosock" \/ free = {} THEN -1 ELSE Min(free)
    IN
    IF fd < 0 THEN ConnectLoop_NoClose(cands, i + 1, op)
    ELSE IF cands[i] = "ok"
    THEN [ok |-> TRUE, sock |-> fd, open |-> op \cup {fd}, idx |-> i]
    ELSE ConnectLoop_NoClose(cands, i + 1, op \cup {fd})

\* The for loop over the getaddrinfo results: socket(), ::connect(), and
\* close() for a candidate that does not connect
RECURSIVE ConnectLoop(_, _, _)
ConnectLoop(cands, i, op) ==
  IF i > Len(cands) THEN [ok |-> FALSE, sock |-> -1, open |-> op, idx |-> 0]
  ELSE
    LET free == Fds \ op
        fd == IF cands[i] = "nosock" \/ free = {} THEN -1 ELSE Min(free)
    IN
    IF fd < 0 THEN ConnectLoop(cands, i + 1, op)
    ELSE IF cands[i] = "ok"
    THEN [ok |-> TRUE, sock |-> fd, open |-> op \cup {fd}, idx |-> i]
    ELSE ConnectLoop(cands, i + 1, (op \cup {fd}) \ {fd})

\* The next instance connect() would create
IsNextClient(c) ==
  /\ cstate[c] = "unborn"
  /\ \A d \in Clients : cstate[d] = "unborn" => c <= d

\* ExternalControlClient::connect with the candidate addresses `cands`;
\* c is the instance it returns when a candidate connects
Connect(c, cands) ==
  /\ IsNextClient(c)
  /\ LET r == ConnectLoop(cands, 1, open)
     IN
     /\ sock_fd_' = r.sock
     /\ open' = r.open
     /\ IF r.ok
        THEN /\ cstate' = [cstate EXCEPT ![c] = "alive"]
             /\ connected' = [connected EXCEPT ![c] = TRUE]
        ELSE UNCHANGED <<cstate, connected>>
     /\ last' = [NoCall EXCEPT !.op = "connect", !.c = IF r.ok THEN c ELSE Null,
                               !.threw = ~r.ok, !.ok = r.ok,
                               !.cands = cands, !.idx = r.idx,
                               !.exc = IF r.ok THEN "" ELSE "std::runtime_error"]
  /\ UNCHANGED <<mtx, machines, heap, refs, pc, cl, nm, hsOk, disc>>
  /\ UNCHANGED codec

\* getaddrinfo fails: connect throws before it touches the socket
ConnectResolveFails(c) ==
  /\ IsNextClient(c)
  /\ last' = [NoCall EXCEPT !.op = "connect", !.threw = TRUE, !.what = "getaddrinfo",
                            !.exc = "std::runtime_error"]
  /\ UNCHANGED <<sock_fd_, open, cstate, connected, mtx, machines, heap, refs,
                 pc, cl, nm, hsOk, disc>>
  /\ UNCHANGED codec

\* --------------------------------------------------------- disconnect
\* The body of disconnect(): takes no lock
DisconnectBody ==
  IF sock_fd_ >= 0
  THEN /\ open' = open \ {sock_fd_}
       /\ sock_fd_' = -1
  ELSE UNCHANGED <<sock_fd_, open>>

Disconnect(c) ==
  /\ cstate[c] = "alive"
  /\ DisconnectBody
  /\ last' = [NoCall EXCEPT !.op = "disconnect", !.c = c, !.ok = (sock_fd_ >= 0)]
  /\ disc' = [disc EXCEPT ![c] = TRUE]
  /\ UNCHANGED <<cstate, connected, mtx, machines, heap, refs, pc, cl, nm, hsOk>>
  /\ UNCHANGED codec

\* ~ExternalControlClient: disconnect(), then the Impl and its cache go.
\* The caller destroys a client only when no call is running on it.
Destroy(c) ==
  /\ cstate[c] = "alive"
  /\ \A t \in Threads : cl[t] # c
  /\ DisconnectBody
  /\ cstate' = [cstate EXCEPT ![c] = "dead"]
  /\ connected' = [connected EXCEPT ![c] = FALSE]
  /\ machines' = [machines EXCEPT ![c] = [n \in Names |-> Null]]
  /\ last' = [NoCall EXCEPT !.op = "destroy", !.c = c, !.ok = (sock_fd_ >= 0)]
  /\ UNCHANGED <<mtx, heap, refs, pc, cl, nm, hsOk, disc>>
  /\ UNCHANGED codec

\* ---------------------------------------------------- performHandshake
UINT16_MAX == 65535

\* constexpr std::array<std::pair<uint8_t, uint8_t>, 6> command_versions
command_versions ==
  << <<RUN_FOR, 0>>, <<2, 0>>, <<GET_MACHINE, 0>>, <<4, 0>>, <<5, 1>>, <<6, 0>> >>

\* write_u16_le
U16LE(v) == <<v % 256, (v \div 256) % 256>>

\* The pair count written high byte first
HandshakeRequest_BigEndian(table) ==
  <<(Len(table) \div 256) % 256, Len(table) % 256>>
    \o [i \in 1..(2 * Len(table)) |->
          IF i % 2 = 1 THEN table[(i + 1) \div 2][1] ELSE table[i \div 2][2]]

\* The buffer performHandshake builds: the pair count, then p.first and
\* p.second of every pair in table order
HandshakeRequest(table) ==
  U16LE(Len(table))
    \o [i \in 1..(2 * Len(table)) |->
          IF i % 2 = 1 THEN table[(i + 1) \div 2][1] ELSE table[i \div 2][2]]

\* First half: the activation table is sent with send_bytes. No lock is taken.
HsSend(t, c, w) ==
  /\ pc[t] = "idle"
  /\ cstate[c] = "alive"
  /\ IF Len(command_versions) > UINT16_MAX
     THEN \* return false before anything is sent
          /\ last' = [NoCall EXCEPT !.op = "performHandshake", !.c = c]
          /\ UNCHANGED <<pc, cl>>
     ELSE IF sock_fd_ < 0 \/ w = "fail"
     THEN \* send_bytes throws; performHandshake lets the exception through
          /\ last' = [NoCall EXCEPT !.op = "performHandshake", !.c = c, !.threw = TRUE,
                        !.what = IF sock_fd_ < 0 THEN "socket closed" ELSE "write failed"]
          /\ UNCHANGED <<pc, cl>>
     ELSE /\ pc' = [pc EXCEPT ![t] = "hs_read"]
          /\ cl' = [cl EXCEPT ![t] = c]
          /\ last' = [NoCall EXCEPT !.sent = HandshakeRequest(command_versions)]
  /\ UNCHANGED <<sock_fd_, open, cstate, connected, mtx, machines, heap, refs, nm,
                 hsOk, disc>>
  /\ UNCHANGED codec

\* Any success code taken for the handshake acknowledgement
HandshakeOk_AnySuccess(response) ==
  response \in {OK_HANDSHAKE, SUCCESS_WITHOUT_DATA, SUCCESS_WITH_DATA}

\* response == renode_return_code::OK_HANDSHAKE
HandshakeOk(response) == response = OK_HANDSHAKE

\* Second half: read_byte; b = -1 stands for a failed read
HsRead(t, b) ==
  /\ pc[t] = "hs_read"
  /\ LET c == cl[t]
         got == IF sock_fd_ < 0 THEN -1 ELSE b
         result == HandshakeOk(got)
     IN
     /\ hsOk' = [hsOk EXCEPT ![c] = @ \/ result]
     /\ last' = [NoCall EXCEPT !.op = "performHandshake", !.c = c,
                   !.resp = IF got < 0 THEN <<>> ELSE <<got>>, !.ok = result]
  /\ pc' = [pc EXCEPT ![t] = "idle"]
  /\ cl' = [cl EXCEPT ![t] = Null]
  /\ UNCHANGED <<sock_fd_, open, cstate, connected, mtx, machines, heap, refs, nm, disc>>
  /\ UNCHANGED codec

\* ----------------------------------------------------------- getMachine
\* A cache holding its Machines itself: an entry never expires
WeakLock_Strong(c, name) == machines[c][name]

\* A cache that never finds its entry
WeakLock_Expired(c, name) == Null

\* machines[name].lock()
WeakLock(c, name) ==
  LET o == machines[c][name]
  IN  IF o # Null /\ refs[o] > 0 THEN o ELSE Null

\* The AMachine objects of client c alive under the name `name`
LiveMachines(c, name) ==
  { o \in ObjIds : heap[o].used /\ refs[o] > 0 /\ heap[o].key = name
                   /\ heap[o].renodeClient = c }

\* The AMachine objects constructed so far
Constructed == { o \in ObjIds : heap[o].used }

\* instImpl->name = descriptor: std::string::operator=(char)
NameFromDescriptor(descriptor) == << descriptor % 256 >>

\* A reply of 4 bytes or more accepted
ReplySizeOk_AtLeast(reply) == Len(reply) >= 4

\* reply.size() == sizeof(int32_t)
ReplySizeOk(reply) == Len(reply) = 4

\* The handle returned with the error left at a failure code
ReturnMachine_ErrorLeft(call, inst) == [call EXCEPT !.err = ERR_NOT_FOUND, !.obj = inst]

\* err = {0, ""}; return the handle
ReturnMachine(call, inst) == [call EXCEPT !.err = ERR_NONE, !.obj = inst]

\* An error return that erases the cache entry of the name
ReturnNull_DropsEntry(c, name) ==
  /\ machines' = [machines EXCEPT ![c][name] = Null]
  /\ UNCHANGED <<heap, refs>>

\* return nullptr after a reply was received: the cache is not touched
ReturnNull(c, name) == UNCHANGED <<machines, heap, refs>>

\* Zero taken for not found
NotFound_ZeroToo(descriptor) == descriptor <= 0

\* descriptor < 0: "Machine not found"
NotFound(descriptor) == descriptor < 0

\* lock_guard, then the connected check
GmEnter(t, c, name) ==
  /\ pc[t] = "idle"
  /\ cstate[c] = "alive"
  /\ mtx[c] = 0
  /\ IF ~connected[c]
     THEN /\ last' = [NoCall EXCEPT !.op = "getMachine", !.c = c, !.name = name,
                        !.err = ERR_NOT_CONNECTED, !.what = "not connected"]
          /\ UNCHANGED <<mtx, pc, cl, nm>>
     ELSE /\ mtx' = [mtx EXCEPT ![c] = t]
          /\ pc' = [pc EXCEPT ![t] = "gm_send"]
          /\ cl' = [cl EXCEPT ![t] = c]
          /\ nm' = [nm EXCEPT ![t] = name]
          /\ last' = NoCall
  /\ UNCHANGED <<sock_fd_, open, cstate, connected, machines, heap, refs,
                 hsOk, disc>>
  /\ UNCHANGED codec

\* getMachine returns: the lock_guard unlocks
GmLeave(t) ==
  /\ mtx' = [mtx EXCEPT ![cl[t]] = 0]
  /\ pc' = [pc EXCEPT ![t] = "idle"]
  /\ cl' = [cl EXCEPT ![t] = Null]
  /\ nm' = [nm EXCEPT ![t] = <<>>]

\* send_command: the header and the payload go out with send_bytes
GmSend(t, w) ==
  /\ pc[t] = "gm_send"
  /\ IF sock_fd_ < 0 \/ w = "fail"
     THEN \* send_bytes throws, getMachine catches: err = {2, ...}
          /\ GmLeave(t)
          /\ last' = [NoCall EXCEPT !.op = "getMachine", !.c = cl[t], !.name = nm[t],
                        !.threw = TRUE, !.err = ERR_SEND_COMMAND,
                        !.what = IF sock_fd_ < 0 THEN "socket closed" ELSE "write failed"]
     ELSE /\ pc' = [pc EXCEPT ![t] = "gm_recv"]
          /\ UNCHANGED <<mtx, cl, nm, last>>
  /\ UNCHANGED <<sock_fd_, open, cstate, connected, machines, heap, refs,
                 hsOk, disc>>
  /\ UNCHANGED codec

TransportFailures == {"return_code", "echo", "truncated_size", "truncated_payload"}

\* recv_response on the bytes r, then the rest of getMachine; `keep` says
\* whether the caller keeps the returned shared_ptr
GmRecv(t, r, keep) ==
  /\ pc[t] = "gm_recv"
  /\ LET c == cl[t]
         name == nm[t]
         rr == IF sock_fd_ < 0 THEN Thrown("socket closed", 0)
               ELSE RecvResponse(r, GET_MACHINE)
         resp == IF sock_fd_ < 0 THEN <<>> ELSE r
         base == [NoCall EXCEPT !.op = "getMachine", !.c = c, !.name = name,
                    !.resp = resp, !.threw = rr.threw, !.what = rr.what,
                    !.payload = rr.payload, !.liveBefore = LiveMachines(c, name),
                    !.usedBefore = Constructed]
     IN
     /\ IF rr.threw
        THEN /\ ~keep
             /\ last' = [base EXCEPT !.err = ERR_SEND_COMMAND]
             /\ ReturnNull(c, name)
        ELSE IF ~ReplySizeOk(rr.payload)
        THEN /\ ~keep
             /\ last' = [base EXCEPT !.err = ERR_REPLY_SIZE]
             /\ ReturnNull(c, name)
        ELSE
          LET descriptor == Int32LE(rr.payload)
              existing == WeakLock(c, name)
              unused == ObjIds \ Constructed
          IN
          IF NotFound(descriptor)
          THEN /\ ~keep
               /\ last' = [base EXCEPT !.err = ERR_NOT_FOUND]
               /\ ReturnNull(c, name)
          ELSE IF existing # Null
          THEN /\ keep => refs[existing] < MaxRefs
               /\ refs' = [refs EXCEPT ![existing] = IF keep THEN @ + 1 ELSE @]
               /\ last' = ReturnMachine(base, existing)
               /\ UNCHANGED <<machines, heap>>
          ELSE /\ unused # {}
               /\ LET inst == Min(unused)
                  IN /\ heap' = [heap EXCEPT ![inst] =
                                   [used |-> TRUE, name |-> NameFromDescriptor(descriptor),
                                    renodeClient |-> c, key |-> name, desc |-> descriptor]]
                     /\ machines' = [machines EXCEPT ![c][name] = inst]
                     /\ refs' = [refs EXCEPT ![inst] = IF keep THEN 1 ELSE 0]
                     /\ last' = ReturnMachine(base, inst)
  /\ GmLeave(t)
  /\ UNCHANGED <<sock_fd_, open, cstate, connected, hsOk, disc>>
  /\ UNCHANGED codec

\* A caller drops one shared_ptr<AMachine>; the last one destroys the object
Release(o) ==
  /\ refs[o] > 0
  /\ refs' = [refs EXCEPT ![o] = @ - 1]
  /\ UNCHANGED <<sock_fd_, open, cstate, connected, mtx, machines, heap,
                 pc, cl, nm, hsOk, disc, last>>
  /\ UNCHANGED codec

\* ------------------------------------------------------- specification
\* The calls of the threads T on the client instances C, with the peer
\* answering GetMachine requests from R
NextOn(T, C, R) ==
  \/ \E c \in C, cands \in CandidateLists : Connect(c, cands)
  \/ \E c \in C : ConnectResolveFails(c)
  \/ \E c \in C : Disconnect(c)
  \/ \E c \in C : Destroy(c)
  \/ \E t \in T, c \in C, w \in {"ok", "fail"} : HsSend(t, c, w)
  \/ \E t \in T, b \in HandshakeBytes \cup {-1} : HsRead(t, b)
  \/ \E t \in T, c \in C, name \in Names : GmEnter(t, c, name)
  \/ \E t \in T, w \in {"ok", "fail"} : GmSend(t, w)
  \/ \E t \in T, r \in R, keep \in BOOLEAN : GmRecv(t, r, keep)
  \/ \E o \in ObjIds : Release(o)

\* One caller thread on one connection, every peer response
Next == NextOn({1}, {1}, Responses)
Spec == Init /\ [][Next]_vars

\* One response of each kind getMachine tells apart
CoreResponses ==
  { Frame(SUCCESS_WITH_DATA, GET_MACHINE, <<0, 0, 0, 0>>),
    Frame(SUCCESS_WITH_DATA, GET_MACHINE, <<1, 0, 0, 0>>),
    Frame(SUCCESS_WITH_DATA, GET_MACHINE, <<255, 255, 255, 255>>),
    Frame(SUCCESS_WITHOUT_DATA, GET_MACHINE, <<>>),
    <<>> }

\* Several caller threads on one connection
NextThreads == NextOn(Threads, {1}, CoreResponses)
SpecThreads == Init /\ [][NextThreads]_vars

\* One caller thread, several connections alive in the process
SharedResponses ==
  { Frame(SUCCESS_WITH_DATA, GET_MACHINE, <<1, 0, 0, 0>>), <<>> }
NextShared == NextOn({1}, Clients, SharedResponses)
SpecShared == Init /\ [][NextShared]_vars

\* ================================================== the byte streams
MaxCalls == 2

CommandIds == 1..6

\* everything but the byte streams
client == <<sock_fd_, open, cstate, connected, mtx, machines, heap, refs,
            pc, cl, nm, hsOk, disc, last>>

\* Length field written high byte first
SendCommand_BigEndian(commandId, payload) ==
  LET data_size == Len(payload)
  IN <<82, 69, commandId % 256,
       (data_size \div 16777216) % 256, (data_size \div 65536) % 256,
       (data_size \div 256) % 256, data_size % 256>> \o payload

\* send_command up to recv_response: the 7-byte header 'R','E', command,
\* data_size (4 bytes LE), then the payload if it is not empty
SendCommand(commandId, payload) ==
  LET data_size == Len(payload)
  IN <<82, 69, commandId % 256,
       data_size % 256, (data_size \div 256) % 256,
       (data_size \div 65536) % 256, (data_size \div 16777216) % 256>> \o payload

\* A peer parsing the request layout: magic, command id, length, payload
ParseRequest(s) ==
  IF Len(s) < 7 \/ s[1] # 82 \/ s[2] # 69
  THEN [ok |-> FALSE, id |-> 0, payload |-> <<>>, rest |-> s]
  ELSE LET n == s[4] + 256 * s[5] + 65536 * s[6] + 16777216 * s[7]
       IN IF Len(s) < 7 + n
          THEN [ok |-> FALSE, id |-> s[3], payload |-> <<>>, rest |-> s]
          ELSE [ok |-> TRUE, id |-> s[3], payload |-> SubSeq(s, 8, 7 + n),
                rest |-> SubSeq(s, 8 + n, Len(s))]

RECURSIVE SockLen(_)
SockLen(sock) == IF sock = <<>> THEN 0 ELSE Len(Head(sock)) + SockLen(Tail(sock))

\* A single recv call: short when the first fragment is short
ReadAll_OneRecv(sock, len, acc) ==
  IF len = 0 THEN [ok |-> TRUE, buf |-> acc, sock |-> sock]
  ELSE IF sock = <<>> THEN [ok |-> FALSE, buf |-> acc, sock |-> sock]
  ELSE LET frag == Head(sock)
           r == Min({Len(frag), len})
           left == IF r = Len(frag) THEN Tail(sock)
                   ELSE <<SubSeq(frag, r + 1, Len(frag))>> \o Tail(sock)
       IN [ok |-> r = len, buf |-> acc \o SubSeq(frag, 1, r), sock |-> left]

\* read_all: recv until len bytes are in; each recv returns what is left of
\* the first fragment, at most the bytes still asked for; with no fragment
\* left the peer has closed and recv returns 0.
RECURSIVE ReadAll(_, _, _)
ReadAll(sock, len, acc) ==
  IF len = 0 THEN [ok |-> TRUE, buf |-> acc, sock |-> sock]
  ELSE IF sock = <<>> THEN [ok |-> FALSE, buf |-> acc, sock |-> sock]
  ELSE LET frag == Head(sock)
           r == Min({Len(frag), len})
           left == IF r = Len(frag) THEN Tail(sock)
                   ELSE <<SubSeq(frag, r + 1, Len(frag))>> \o Tail(sock)
       IN ReadAll(left, len - r, acc \o SubSeq(frag, 1, r))

\* recv_response reading through read_all from the fragments on the socket
RecvFrom(sock, expected_command) ==
  LET Out(o, s) == [threw |-> o.threw, what |-> o.what, payload |-> o.payload,
                    consumed |-> SockLen(sock) - SockLen(s), sock |-> s]
      r1 == ReadAll(sock, 1, <<>>)
  IN
  IF ~r1.ok THEN Out(Thrown("return_code", 0), r1.sock)
  ELSE
    LET return_code == r1.buf[1]
        r2 == IF HasEcho(return_code) THEN ReadAll(r1.sock, 1, <<>>)
              ELSE [ok |-> TRUE, buf |-> <<NO_ECHO>>, sock |-> r1.sock]
    IN
    IF ~r2.ok THEN Out(Thrown("echo", 0), r2.sock)
    ELSE
      LET received_command == r2.buf[1]
      IN
      IF return_code \in {COMMAND_FAILED, FATAL_ERROR, SUCCESS_WITH_DATA}
      THEN
        LET r3 == ReadAll(r2.sock, 4, <<>>)
        IN
        IF ~r3.ok THEN Out(Returned("truncated_size", <<>>, 0), r3.sock)
        ELSE
          LET huge == r3.buf[4] >= 128
              data_size == IF huge THEN 0 ELSE Int32LE(r3.buf)
              r4 == IF huge THEN [ok |-> FALSE, buf |-> <<>>, sock |-> <<>>]
                    ELSE ReadAll(r3.sock, data_size, <<>>)
          IN
          IF ~r4.ok THEN Out(Returned("truncated_payload", <<>>, 0), r4.sock)
          ELSE Out(ValidateEcho(received_command, expected_command, r4.buf, 0), r4.sock)
      ELSE IF return_code = ASYNC_EVENT
      THEN Out(Thrown("async_event", 0), r2.sock)
      ELSE \* INVALID_COMMAND, SUCCESS_WITHOUT_DATA, and the default case
           Out(ValidateEcho(received_command, expected_command, <<>>, 0), r2.sock)

\* ------------------------------------------- round trips on one stream
ReqPayloads == { <<>>, <<7>>, <<109, 49>>, [i \in 1..300 |-> i % 256] }

\* A response frame in the layout of the protocol description: return code,
\* echoed command, then 4-byte length and payload for the codes that carry data
PeerFrame(rc, e, p) ==
  IF rc \in {COMMAND_FAILED, FATAL_ERROR, SUCCESS_WITH_DATA}
  THEN <<rc, e>> \o U32LE(Len(p)) \o p
  ELSE IF rc \in {INVALID_COMMAND, SUCCESS_WITHOUT_DATA} THEN <<rc, e>>
  ELSE <<rc>>

PeerCodes ==
  {COMMAND_FAILED, FATAL_ERROR, INVALID_COMMAND, SUCCESS_WITH_DATA,
   SUCCESS_WITHOUT_DATA, OK_HANDSHAKE}

\* send_command writes the request
RtSend(id, payload) ==
  /\ rt.phase = "idle"
  /\ rt.n < MaxCalls
  /\ tx' = tx \o SendCommand(id, payload)
  /\ rt' = [NoTrip EXCEPT !.phase = "sent", !.n = rt.n + 1, !.id = id,
                          !.payload = payload]
  /\ UNCHANGED <<rx, client>>

\* The peer reads the request and answers it with one frame in one write
PeerAnswer(rc, e, p) ==
  /\ rt.phase = "sent"
  /\ LET q == ParseRequest(tx)
     IN /\ tx' = q.rest
        /\ rx' = Append(rx, PeerFrame(rc, e, p))
        /\ rt' = [rt EXCEPT !.phase = "answered",
                            !.parsed = <<q.ok, q.id, q.payload>>,
                            !.frame = PeerFrame(rc, e, p), !.writes = 1]
  /\ UNCHANGED client

\* send_command's recv_response(commandId). The peer keeps the connection
\* open and writes nothing until the next request, so a read_all that wants
\* more bytes than the peer wrote blocks: the call stalls.
RtRecv ==
  /\ rt.phase = "answered"
  /\ LET rr == RecvFrom(rx, rt.id)
     IN /\ rx' = rr.sock
        /\ rt' = [rt EXCEPT
                    !.phase = IF rr.what \in TransportFailures THEN "stalled" ELSE "idle",
                    !.out = [threw |-> rr.threw, what |-> rr.what,
                             payload |-> rr.payload, consumed |-> rr.consumed]]
  /\ UNCHANGED <<tx, client>>

NextRoundTrip ==
  \/ \E id \in CommandIds, payload \in ReqPayloads : RtSend(id, payload)
  \/ \E rc \in PeerCodes, e \in CommandIds, p \in Payloads : PeerAnswer(rc, e, p)
  \/ RtRecv

SpecRoundTrip == Init /\ [][NextRoundTrip]_vars

\* --------------------------------------------- fragmented delivery
\* Every way to cut s into non-empty fragments
RECURSIVE Splits(_)
Splits(s) ==
  IF s = <<>> THEN {<<>>}
  ELSE UNION { { <<SubSeq(s, 1, k)>> \o t : t \in Splits(SubSeq(s, k + 1, Len(s))) }
               : k \in 1..Len(s) }

\* The peer writes the response r in the fragments of split and closes
FrWrite(r, split) ==
  /\ rt = NoTrip
  /\ rx = <<>>
  /\ rx' = split
  /\ rt' = [NoTrip EXCEPT !.phase = "written", !.frame = r, !.writes = Len(split)]
  /\ UNCHANGED <<tx, client>>

\* recv_response(expected_command) on what the peer wrote
FrRecv(expected_command) ==
  /\ rt.phase = "written"
  /\ LET rr == RecvFrom(rx, expected_command)
     IN /\ rx' = rr.sock
        /\ rt' = [rt EXCEPT !.phase = "decoded", !.id = expected_command,
                    !.out = [threw |-> rr.threw, what |-> rr.what,
                             payload |-> rr.payload, consumed |-> rr.consumed]]
  /\ UNCHANGED <<tx, client>>

NextFragments ==
  \/ \E r \in Responses : \E split \in Splits(r) : FrWrite(r, split)
  \/ \E expected_command \in {GET_MACHINE, RUN_FOR} : FrRecv(expected_command)

SpecFragments == Init /\ [][NextFragments]_vars

\* ------------------------------- the flat client (zmqInterface.cpp)
\* The return codes recv_response of zmqInterface.cpp declares for itself
ZMQ_COMMAND_FAILED == 1
ZMQ_INVALID_COMMAND == 2
ZMQ_SUCCESS_WITH_DATA == 3
ZMQ_SUCCESS_WITHOUT_DATA == 5
ZMQ_FATAL_ERROR == 6
ZMQ_ASYNC_EVENT == 7

\* expected_command != 0xFF && received_command != 0xFF &&
\* received_command != expected_command
ZmqValidateEcho(received_command, expected_command, payload, n) ==
  IF /\ expected_command # NO_ECHO
     /\ received_command # NO_ECHO
     /\ received_command # expected_command
  THEN Thrown("mismatch", n)
  ELSE Returned("payload", payload, n)

ZmqHasEcho(return_code) ==
  return_code \in {ZMQ_COMMAND_FAILED, ZMQ_INVALID_COMMAND, ZMQ_SUCCESS_WITH_DATA,
                   ZMQ_SUCCESS_WITHOUT_DATA}

\* recv_response of zmqInterface.cpp on the bytes s the peer delivers
\* before it closes
ZmqRecvResponse(s, expected_command) ==
  IF Len(s) < 1 THEN Thrown("return_code", 0)
  ELSE
    LET return_code == s[1]
        pos == IF ZmqHasEcho(return_code) THEN 2 ELSE 1
    IN
    IF ZmqHasEcho(return_code) /\ Len(s) < 2 THEN Thrown("echo", Len(s))
    ELSE
      LET received_command == IF ZmqHasEcho(return_code) THEN s[2] ELSE NO_ECHO
      IN
      IF return_code \in {ZMQ_COMMAND_FAILED, ZMQ_FATAL_ERROR, ZMQ_SUCCESS_WITH_DATA}
      THEN
        IF Len(s) < pos + 4 THEN Returned("truncated_size", <<>>, Len(s))
        ELSE
          LET sz == SubSeq(s, pos + 1, pos + 4)
              huge == sz[4] >= 128
              data_size == IF huge THEN 0 ELSE Int32LE(sz)
          IN
          IF huge \/ Len(s) < pos + 4 + data_size
          THEN Returned("truncated_payload", <<>>, Len(s))
          ELSE ZmqValidateEcho(received_command, expected_command,
                               SubSeq(s, pos + 5, pos + 4 + data_size),
                               pos + 4 + data_size)
      ELSE IF return_code \in {ZMQ_INVALID_COMMAND, ZMQ_SUCCESS_WITHOUT_DATA}
      THEN ZmqValidateEcho(received_command, expected_command, <<>>, pos)
      ELSE IF return_code = ZMQ_ASYNC_EVENT
      THEN Thrown("async_event", pos)
      ELSE \* default: logs "unexpected return code" and falls through
           ZmqValidateEcho(received_command, expected_command, <<>>, pos)

\* Both clients decode the same response r of the peer
DecodeBoth(r, expected_command) ==
  /\ rt = NoTrip
  /\ rt' = [NoTrip EXCEPT !.phase = "compared", !.frame = r, !.id = expected_command,
                          !.out = RecvResponse(r, expected_command),
                          !.flat = ZmqRecvResponse(r, expected_command)]
  /\ UNCHANGED <<tx, rx, client>>

NextVariants ==
  \E r \in Responses, expected_command \in {GET_MACHINE, RUN_FOR} :
     DecodeBoth(r, expected_command)

SpecVariants == Init /\ [][NextVariants]_vars

\* =========================================================== properties
InFlight == {"hs_read", "gm_recv"}
SocketOpen == sock_fd_ >= 0 /\ sock_fd_ \in open
ReturnCode(resp) == IF Len(resp) >= 1 THEN resp[1] ELSE -1
GotMachine == last.op = "getMachine" /\ last.obj # Null
Live == { o \in ObjIds : heap[o].used /\ refs[o] > 0 }

\* C1: no command frame is sent on a connection before performHandshake has
\* returned success on it: a thread that has sent a GetMachine frame and
\* waits for the response is on a client whose handshake succeeded.
C1_NoCommandBeforeHandshake ==
  \A t \in Threads : pc[t] = "gm_recv" => hsOk[cl[t]]

\* C2: at most one request/response cycle is in flight on a connection: no
\* two threads are between their send and their receive on the same client.
C2_OneCycleInFlight ==
  \A t, u \in Threads :
    (t # u /\ pc[t] \in InFlight /\ pc[u] \in InFlight) => cl[t] # cl[u]

\* C3: connecting, disconnecting or destroying one client never changes the
\* socket another live client sends and receives on.
C3_ExclusiveSocket ==
  [][\A b \in Clients :
       ( /\ cstate[b] = "alive" /\ cstate'[b] = "alive"
         /\ last'.op \in {"connect", "disconnect", "destroy"}
         /\ last'.c # b )
       => sock_fd_' = sock_fd_]_vars

\* C4: after a transport failure during a command round trip the connection
\* is marked disconnected.
C4_TransportFailureDisconnects ==
  ( /\ last.op = "getMachine"
    /\ last.what \in TransportFailures \cup {"write failed"} )
  => ~connected[last.c]

\* C5: a CommandFailed or FatalError response makes getMachine report an
\* error and produce no Machine handle, whatever the payload.
C5_FailureCodeGivesNoHandle ==
  ( /\ last.op = "getMachine"
    /\ ReturnCode(last.resp) \in {COMMAND_FAILED, FATAL_ERROR} )
  => (last.obj = Null /\ last.err # ERR_NONE)

\* C6: a first response byte that is no defined return code (or OkHandshake
\* outside the handshake) makes the round trip surface an error instead of
\* returning a payload, and the connection stays open and connected.
C6_UnknownCodeSurfacesError ==
  ( /\ last.op = "getMachine"
    /\ Len(last.resp) >= 1
    /\ ReturnCode(last.resp) \notin {COMMAND_FAILED, FATAL_ERROR, INVALID_COMMAND,
                                     SUCCESS_WITH_DATA, SUCCESS_WITHOUT_DATA,
                                     ASYNC_EVENT} )
  => (last.threw /\ SocketOpen /\ connected[last.c])

\* C7: a SuccessWithData response whose echoed command byte differs from the
\* command sent makes the call report an error and hand back nothing made
\* from the payload; the connection is left open.
C7_EchoMismatchIsError ==
  ( /\ last.op = "getMachine"
    /\ Len(last.resp) >= 2
    /\ last.resp[1] = SUCCESS_WITH_DATA
    /\ last.resp[2] # GET_MACHINE )
  => (last.err # ERR_NONE /\ last.obj = Null /\ SocketOpen)

\* C8: a handle getMachine returns describes the descriptor the server
\* returned in the response to that very call.
C8_HandleMatchesDescriptor ==
  ( /\ GotMachine
    /\ last.resp[1] = SUCCESS_WITH_DATA /\ last.resp[2] = GET_MACHINE )
  => heap[last.obj].desc = Int32LE(last.payload)

\* C9: a successful getMachine for a name whose Machine is still held, the
\* peer returning the same descriptor, returns that very Machine and
\* constructs none; it never returns a Machine that is live under another
\* name, and with no live Machine of the name it constructs a new one.
C9_CacheIdentity ==
  GotMachine =>
    /\ \A o \in last.liveBefore :
         heap[o].desc = Int32LE(last.payload)
           => (last.obj = o /\ Constructed = last.usedBefore)
    /\ \A o \in Live :
         (heap[o].renodeClient = last.c /\ heap[o].key # last.name) => last.obj # o
    /\ last.liveBefore = {} => last.obj \notin last.usedBefore

\* C9's case: the Machine held under the name is handed back while a
\* Machine of another name is live too.
C9_Witness ==
  /\ GotMachine
  /\ last.liveBefore = {last.obj}
  /\ heap[last.obj].desc = Int32LE(last.payload)
  /\ \E o \in Live : heap[o].key # last.name

\* C10: a 4-byte GetMachine payload whose top bit is set (a negative
\* little-endian int32) gives error 4 and no handle, cached handle or not;
\* any other 4-byte payload is treated as found.
C10_NegativeIsNotFound ==
  (last.op = "getMachine" /\ ~last.threw /\ Len(last.payload) = 4) =>
    IF last.payload[4] >= 128
    THEN last.err = ERR_NOT_FOUND /\ last.obj = Null
    ELSE last.err = ERR_NONE /\ last.obj # Null

\* C10's case: not found is reported while a live handle of the name is cached.
C10_Witness ==
  /\ last.op = "getMachine"
  /\ last.err = ERR_NOT_FOUND
  /\ last.payload = <<255, 255, 255, 255>>
  /\ last.liveBefore # {}

\* C11: getMachine produces a handle only from a reply of exactly 4 bytes:
\* every reply of another length the round trip hands back (0, 1..3, 5 or
\* more bytes) gives error 3 and no handle.
C11_ReplyMustBeFourBytes ==
  last.op = "getMachine" =>
    /\ (~last.threw /\ last.resp # <<>> /\ Len(last.payload) # 4)
         => (last.err = ERR_REPLY_SIZE /\ last.obj = Null)
    /\ last.obj # Null => (~last.threw /\ Len(last.payload) = 4)

\* C11's case: a 5-byte payload, its first 4 bytes a valid descriptor, is refused.
C11_Witness ==
  /\ last.op = "getMachine"
  /\ last.payload = <<1, 0, 0, 0, 0>>
  /\ last.err = ERR_REPLY_SIZE
  /\ last.obj = Null

\* C12: after disconnect() has returned, a getMachine call on the connection
\* fails with "Not connected" (code 1): no call gets past the connected check
\* and on to sending while the socket is closed.
C12_DisconnectedIsNotConnected ==
  [][\A t \in Threads :
       (pc[t] = "idle" /\ pc'[t] = "gm_send") => SocketOpen]_vars

\* C13: disconnect() is idempotent: on a connection that has already been
\* disconnected, another disconnect() or the destructor's implicit one closes
\* no descriptor and leaves the socket state as it was.
C13_DisconnectIdempotent ==
  [][\A c \in Clients :
       (disc[c] /\ last'.op \in {"disconnect", "destroy"} /\ last'.c = c
               /\ cstate[c] = "alive")
         => (open' = open /\ sock_fd_' = sock_fd_)]_vars

C15_NthCallNthFrame ==
  /\ rt.phase # "stalled"
  /\ (rt.phase = "idle" /\ rt.n > 0) =>
       /\ rx = <<>>
       /\ rt.out.consumed = Len(rt.frame)
       /\ (~rt.out.threw /\ Len(rt.frame) >= 6)
            => rt.out.payload = SubSeq(rt.frame, 7, Len(rt.frame))

\* C15 without FatalError frames
C15_ExceptFatalError ==
  (rt.frame # <<>> /\ rt.frame[1] # FATAL_ERROR) => C15_NthCallNthFrame

\* C17: send_command writes 'R', 'E', the command id, the payload length as
\* 4 little-endian bytes and then the payload; the length field equals the
\* number of payload bytes that follow and a peer parsing this layout
\* recovers the command id and the payload.
C17_RequestRoundTrips ==
  rt.phase = "sent" =>
    /\ Len(tx) = 7 + Len(rt.payload)
    /\ tx[1] = 82 /\ tx[2] = 69 /\ tx[3] = rt.id
    /\ tx[4] + 256 * tx[5] + 65536 * tx[6] + 16777216 * tx[7] = Len(rt.payload)
    /\ SubSeq(tx, 8, Len(tx)) = rt.payload
    /\ ParseRequest(tx) = [ok |-> TRUE, id |-> rt.id, payload |-> rt.payload,
                           rest |-> <<>>]

\* C17's case: a 300-byte payload (length bytes 2C 01 00 00) was sent and the
\* peer has recovered it
C17_Witness ==
  /\ rt.phase = "answered"
  /\ Len(rt.payload) = 300
  /\ rt.parsed = <<TRUE, rt.id, rt.payload>>

\* C16: decoding does not depend on how the peer fragments the response:
\* for every response and every cut of it into non-empty fragments, the
\* outcome (payload or error) and the number of bytes consumed are those of
\* the same bytes delivered in one write.
C16_FragmentationIndependent ==
  rt.phase = "decoded" =>
    LET whole == RecvFrom(IF rt.frame = <<>> THEN <<>> ELSE <<rt.frame>>, rt.id)
    IN /\ rt.out.threw = whole.threw
       /\ rt.out.what = whole.what
       /\ rt.out.payload = whole.payload
       /\ rt.out.consumed = whole.consumed
       /\ SockLen(rx) = SockLen(whole.sock)
       /\ rt.out = RecvResponse(rt.frame, rt.id)

\* C16's case: a SuccessWithData frame with a 4-byte payload has arrived one
\* byte at a time and its payload was decoded
C16_Witness ==
  /\ rt.phase = "decoded"
  /\ rt.frame = Frame(SUCCESS_WITH_DATA, GET_MACHINE, <<1, 0, 0, 0>>)
  /\ rt.writes = 10
  /\ rt.out.consumed = 10
  /\ rt.out.payload = <<1, 0, 0, 0>>
  /\ rx = <<>>

\* C18: the cache never extends a Machine's lifetime. A cached Machine is
\* handed out again only while some caller still holds a handle to it; once
\* all handles are released the entry is stale, and the next successful
\* getMachine for the name constructs a new Machine and stores it in place
\* of the stale entry.
C18_CacheHoldsNoMachine ==
  GotMachine =>
    /\ last.obj \in last.usedBefore => last.obj \in last.liveBefore
    /\ last.liveBefore = {} =>
         /\ last.obj \notin last.usedBefore
         /\ machines[last.c][last.name] = last.obj

\* C18's case: a Machine of the name had been constructed and all its handles
\* released; the call constructed another one and the cache now names it.
C18_Witness ==
  /\ GotMachine
  /\ last.liveBefore = {}
  /\ \E o \in last.usedBefore :
       heap[o].key = last.name /\ heap[o].renodeClient = last.c /\ refs[o] = 0
  /\ last.obj \notin last.usedBefore
  /\ machines[last.c][last.name] = last.obj

\* C19: getMachine raises nothing and its two outputs agree: it returns a
\* handle exactly when the error code is 0 and no handle exactly when the
\* code is not 0, whatever the connection state and the peer's answer; an
\* exception of the round trip ends in an error code, not in the caller.
C19_HandleIffNoError ==
  last.op = "getMachine" =>
    /\ last.obj # Null <=> last.err = ERR_NONE
    /\ last.obj = Null <=> last.err \in {ERR_NOT_CONNECTED, ERR_SEND_COMMAND,
                                         ERR_REPLY_SIZE, ERR_NOT_FOUND}
    /\ last.threw => last.err = ERR_SEND_COMMAND

\* C19's case: the round trip threw on a response with a foreign echo while a
\* Machine of the name was cached and alive; the caller got code 2, no handle.
C19_Witness ==
  /\ last.op = "getMachine"
  /\ last.threw
  /\ last.what = "mismatch"
  /\ last.liveBefore # {}
  /\ last.err = ERR_SEND_COMMAND
  /\ last.obj = Null

\* C20: connect tries the candidate addresses in order and stops at the first
\* one that connects, returning a connected client on that socket; when no
\* candidate connects it fails with an exception and returns no client (never
\* a null one); the socket opened for a candidate that failed is closed again.
C20_ConnectFirstCandidate ==
  [][(last'.op = "connect" /\ last' # last /\ last'.what # "getaddrinfo") =>
       LET cands == last'.cands
           connecting == { i \in 1..Len(cands) : cands[i] = "ok" }
       IN IF connecting # {} /\ Fds \ open # {}
          THEN /\ last'.ok /\ ~last'.threw
               /\ last'.idx = Min(connecting)
               /\ last'.c # Null
               /\ cstate'[last'.c] = "alive" /\ connected'[last'.c]
               /\ sock_fd_' \notin open
               /\ open' = open \cup {sock_fd_'}
          ELSE /\ ~last'.ok /\ last'.threw
               /\ last'.c = Null
               /\ cstate' = cstate
               /\ open' = open]_vars

\* C20's case: the first candidate was refused, the second one connected
C20_Witness ==
  /\ last.op = "connect"
  /\ last.cands = <<"refused", "ok">>
  /\ last.ok
  /\ last.idx = 2
  /\ open = {sock_fd_}
  /\ connected[last.c]

\* C21: every failure of connect, address resolution failing or no candidate
\* connecting, reaches the caller as a RenodeException.
C21_ConnectThrowsRenodeException ==
  (last.op = "connect" /\ last.threw) => IsA(last.exc, "RenodeException")

\* The response is a frame the peer cut short after its return code: inside
\* the echo, the 4-byte length or the payload
CutShort(resp) ==
  \E f \in { Frame(SUCCESS_WITH_DATA, GET_MACHINE, <<1, 0, 0, 0>>),
             Frame(FATAL_ERROR, NO_ECHO, <<1, 0, 0, 0>>) } :
     /\ Len(resp) >= 1
     /\ Len(resp) < Len(f)
     /\ resp = SubSeq(f, 1, Len(resp))

\* C22: when the peer closes in the middle of a response, the round trip
\* fails: it ends in an exception and the caller gets the transport error,
\* never an empty payload as after a response without data.
C22_CutShortResponseIsFatal ==
  (last.op = "getMachine" /\ CutShort(last.resp)) =>
     (last.threw /\ last.err = ERR_SEND_COMMAND)

\* The decoder has read, after the return code of the frame, one echoed
\* command, a 4-byte length L and L payload bytes, and has validated the echo
ReadsEchoLengthPayload ==
  /\ rt.phase = "idle"
  /\ rt.out.consumed = Len(rt.frame)
  /\ rt.out.threw <=> rt.frame[2] # rt.id
  /\ ~rt.out.threw => rt.out.payload = SubSeq(rt.frame, 7, Len(rt.frame))

\* C23: for each of CommandFailed, FatalError and SuccessWithData the decoder
\* reads after the return code exactly 1 echoed-command byte, the 4-byte
\* little-endian length L and L payload bytes, and the echoed byte takes part
\* in echo validation.
C23_DataCodesCarryEcho ==
  (/\ rt.phase \in {"idle", "stalled"}
   /\ rt.frame # <<>>
   /\ rt.frame[1] \in {COMMAND_FAILED, FATAL_ERROR, SUCCESS_WITH_DATA})
    => ReadsEchoLengthPayload

\* C23 for CommandFailed and SuccessWithData alone
C23_ExceptFatalError ==
  (/\ rt.phase \in {"idle", "stalled"}
   /\ rt.frame # <<>>
   /\ rt.frame[1] \in {COMMAND_FAILED, SUCCESS_WITH_DATA})
    => ReadsEchoLengthPayload

\* C24: every performHandshake call that sends sends the same bytes: the
\* pair count as 2 little-endian bytes, then the (command id, version) pairs
\* in table order, 06 00 01 00 02 00 03 00 04 00 05 01 06 00.
C24_HandshakeBytes ==
  \A t \in Threads :
    pc[t] = "hs_read" /\ last.op = "none" =>
      last.sent = <<6, 0, 1, 0, 2, 0, 3, 0, 4, 0, 5, 1, 6, 0>>

\* C24's case: a handshake has succeeded on the client before, and the call
\* now in progress has sent the 14 bytes again
C24_Witness ==
  \E t \in Threads :
    /\ pc[t] = "hs_read"
    /\ hsOk[cl[t]]
    /\ Len(last.sent) = 14

\* C25: under every interleaving of getMachine calls and handle releases on
\* a connection, at most one live Machine exists per machine name: a Machine
\* is constructed for a name only when no handle of an earlier Machine of
\* that name is still held.
C25_OneLiveMachinePerName ==
  /\ \A c \in Clients, name \in Names : Cardinality(LiveMachines(c, name)) <= 1
  /\ (GotMachine /\ last.obj \notin last.usedBefore) => last.liveBefore = {}

\* C25's case: a Machine of the name is held by two handles, an earlier
\* Machine of the same name is gone, and a getMachine for the name by another
\* thread is waiting for its response.
C25_Witness ==
  \E t \in Threads, o \in ObjIds, d \in ObjIds :
    /\ pc[t] = "gm_recv"
    /\ LiveMachines(cl[t], nm[t]) = {o}
    /\ refs[o] = 2
    /\ heap[d].used /\ heap[d].key = nm[t] /\ refs[d] = 0

\* C26: a getMachine call that ends in an error (not connected, transport or
\* protocol failure, wrong payload size, not found) leaves the machine cache
\* as it was: no entry is added, replaced or removed, no Machine is
\* constructed and the handles callers hold stay valid.
C26_ErrorLeavesCache ==
  [][(last'.op = "getMachine" /\ last' # last /\ last'.err # ERR_NONE) =>
       (machines' = machines /\ heap' = heap /\ refs' = refs)]_vars

\* C26's case: the call failed on the reply size while a Machine of the name
\* was cached and held; the cache still answers with that Machine.
C26_Witness ==
  /\ last.op = "getMachine"
  /\ last.err = ERR_REPLY_SIZE
  /\ last.liveBefore # {}
  /\ WeakLock(last.c, last.name) \in last.liveBefore

\* C27: no Machine handle refers to a Connection that no longer exists: a
\* Machine still held by a caller has its renodeClient pointing to a client
\* that has not been destroyed.
C27_NoMachineOfDeadClient ==
  \A o \in Live : cstate[heap[o].renodeClient] = "alive"

\* C28: the handle a successful getMachine(name) returns is identified by
\* that name: name() on it gives the string the machine was looked up by.
C28_HandleNamedAsLookedUp ==
  GotMachine => heap[last.obj].name = last.name

\* C29: the flat client and the handle-based client number the return codes
\* alike: on every response recv_response of the one reads as many bytes and
\* ends in the same payload or error as recv_response of the other.
C29_OneReturnCodeNumbering ==
  rt.phase = "compared" => rt.flat = rt.out

====
